---------------------------- MODULE Spec2Model ----------------------------
(***************************************************************************)
(* crazy-stairs: sixteen VL53L0X distance sensors behind two TCA9548A I2C  *)
(* multiplexers (src/vl53l0x_multiplexer.py) polled round-robin by the     *)
(* control loop of src/main.py, which lights one LED segment per stair.    *)
(*                                                                         *)
(* The specifications share the variables:                                 *)
(*   SpecMux   the VL53L0XMultiplexer object under arbitrary calls of      *)
(*             _select_channel / init_sensor / read_range, one I2C write   *)
(*             per step;                                                   *)
(*   Spec      main(): construction, then the control loop, one loop       *)
(*             iteration (or one init_sensor call of a discovery pass)     *)
(*             per step, and the KeyboardInterrupt;                        *)
(*   SpecRun   Spec with a loop that keeps running (weak fairness);        *)
(*   SpecAudio the BluetoothAudio object of src/bluetooth_audio.py under   *)
(*             arbitrary calls, one command per step;                      *)
(*   SpecColor get_color_from_distance for every distance of a range.      *)
(*                                                                         *)
(* Modelling of the hardware, which the source does not define:            *)
(*   - a TCA9548A holds an 8-bit control register (mask); a write of one   *)
(*     byte replaces it; a write that raises OSError leaves it unchanged;  *)
(*   - at program start a chip holds whatever an earlier run left in it    *)
(*     (nothing, or one channel: main() never disables on exit);           *)
(*   - a chip that does not answer its probe is not on the bus and         *)
(*     contributes no enabled channel;                                     *)
(*   - any i2c.writeto to a chip that answered its probe may still raise.  *)
(* Time is counted in units of 100 ms, and only the time since the three   *)
(* timestamps of main() is kept, each saturating at the interval it is     *)
(* compared with.                                                          *)
(***************************************************************************)
EXTENDS Integers, Sequences, FiniteSets, TLC

\* ------------------------------------------------------------- constants

\* tca_addresses=[0x70, 0x77]
tca_addresses == <<112, 119>>

\* 8 channels per multiplexer
ChannelsPerMux == 8

\* Number of sensors that are physically wired and can answer a bring-up.
MaxSensors == 2

\* The channels the wired sensors sit on, in the order they are added as
\* MaxSensors grows (both multiplexers are used, as in STAIR_MAPPING).
WiredOrder == <<0, 9, 1, 8, 15, 4>>

Wired == {WiredOrder[i] : i \in 1..MaxSensors}

\* I2C writes that raise OSError in one run of the program.
MaxBusFaults == 1

\* Distances a sensor reports (whole millimetres, as adafruit_vl53l0x
\* gives them): the nearest one on each side of the 609.6 mm threshold.
Readings == {609, 610}

\* Register values an earlier run of the program can have left in a chip.
Leftover == {0, 1, 128}

Min(a, b) == IF a < b THEN a ELSE b

Range(s) == {s[i] : i \in DOMAIN s}

\* ------------------------------------------------------------- variables

VARIABLES
  pc,                   \* position of the program
  chipPresent,          \* hardware: chip answers at tca_addresses[i]
  mask,                 \* hardware: control register of chip i
  tcas,                 \* self.tcas: <<addr, tca object present>> per address
  working_multiplexers, \* self.working_multiplexers
  sensors,              \* self.sensors[ch+1]: a sensor object is stored
  initialized,          \* self.initialized[ch+1]
  busFaults,            \* hardware: writes that raised so far
  op,                   \* SpecMux: the call in progress
  busLog,               \* SpecMux: writes that reached a chip in the current call
  strip,                \* main: the PixelStrip object exists (is not None)
  stairLevel,           \* hardware: brightness of the LEDs of each stair
  active_sensors,       \* main: list of working sensor channel numbers
  current_sensor_idx,   \* main: index into active_sensors
  sensor_states,        \* main: dict channel -> triggered
  current_distances,    \* main: dict channel -> last distance
  channel,              \* main: loop variable of the discovery pass
  since_update,         \* time.time() - last_update, saturating
  since_init,           \* time.time() - last_sensor_init, saturating
  sincePass,            \* time since the latest discovery pass began (-1: none yet)
  passGap,              \* sincePass as it was when the latest pass began
  lastRead,             \* the latest read_range call of the loop, and the edge it made
  evicted,              \* channels removed since the latest pass began
  ticked,               \* the control loop has executed an iteration
  litAtInterrupt,       \* an LED was lit when the interrupt arrived
  sound_file,           \* BluetoothAudio: self.sound_file is set
  device_mac,           \* BluetoothAudio: self.device_mac is set
  device_name,          \* BluetoothAudio: self.device_name is set
  connected,            \* BluetoothAudio: self.connected
  conn,                 \* the connect_bluetooth call in progress, or the latest
  play,                 \* the play_sound call in progress, or the latest
  plays,                \* play_sound calls made so far
  distance_in,          \* get_color_from_distance: the argument
  color,                \* Color(red, green, blue) returned for distance_in
  colorOfNext           \* Color(red, green, blue) returned for distance_in + 1

muxVars == <<chipPresent, mask, tcas, working_multiplexers, sensors,
            initialized, busFaults>>
callVars == <<op, busLog>>
ledVars == <<strip, stairLevel>>
loopVars == <<active_sensors, current_sensor_idx, sensor_states,
              current_distances, channel, lastRead, evicted, ticked>>
clockVars == <<since_update, since_init, sincePass, passGap>>
mainVars == <<ledVars, loopVars, clockVars>>
audioVars == <<sound_file, device_mac, device_name, connected, conn, play,
               plays>>
colorVars == <<distance_in, color, colorOfNext>>
extVars == <<litAtInterrupt, audioVars, colorVars>>
vars == <<pc, muxVars, callVars, mainVars, extVars>>

\* --------------------------------------------- VL53L0XMultiplexer helpers

NoMux == -1

\* 8 * len(self.tcas)
NumChannels == ChannelsPerMux * Len(tcas)

\* Bug: the range is taken from the multiplexers that probed as working.
GetMultiplexerAndChannelWorkingOnly(global_channel) ==
  IF ~(0 <= global_channel /\ global_channel < ChannelsPerMux * working_multiplexers)
    THEN <<NoMux, NoMux>>
    ELSE <<global_channel \div ChannelsPerMux, global_channel % ChannelsPerMux>>

\* _get_multiplexer_and_channel: (mux index, local channel), or
\* (None, None), written <<NoMux, NoMux>>, for a channel out of range.
GetMultiplexerAndChannel(global_channel) ==
  IF ~(0 <= global_channel /\ global_channel < NumChannels)
    THEN <<NoMux, NoMux>>
    ELSE <<global_channel \div ChannelsPerMux, global_channel % ChannelsPerMux>>

\* self.tcas[mux_idx][0] and self.tcas[mux_idx][1] is not None
TcaAddr(mux_idx) == tcas[mux_idx + 1][1]
TcaWorking(mux_idx) == tcas[mux_idx + 1][2]

\* The chip that answers at an address.
ChipAt(addr) == CHOOSE i \in DOMAIN tca_addresses : tca_addresses[i] = addr

\* i2c.writeto(addr, bytes([byte])) that is acknowledged: the register of
\* the chip at addr becomes byte.
WriteTo(mk, w) == [mk EXCEPT ![ChipAt(w[1])] = w[2]]

RECURSIVE WriteAll(_, _)
WriteAll(mk, ws) ==
  IF ws = <<>> THEN mk ELSE WriteAll(WriteTo(mk, Head(ws)), Tail(ws))

\* _disable_all_channels: the writes it issues, in order: a zero to each
\* working multiplexer.
RECURSIVE ZeroWrites(_)
ZeroWrites(ts) ==
  IF ts = <<>> THEN <<>>
  ELSE (IF Head(ts)[2] THEN << <<Head(ts)[1], 0>> >> ELSE <<>>)
       \o ZeroWrites(Tail(ts))

\* Bug: only the first multiplexer is disabled.
DisableAllWritesFirstOnly == ZeroWrites(SubSeq(tcas, 1, 1))

DisableAllWrites == ZeroWrites(tcas)

\* The channel's bit is the register of its multiplexer: it is the
\* selected channel.
Selected(c) ==
  /\ 0 <= c /\ c < NumChannels
  /\ mask[(c \div ChannelsPerMux) + 1] = 2 ^ (c % ChannelsPerMux)

\* Bug: the other channels are not disabled before the enable.
SelectWritesNoDisable(global_channel) ==
  LET mc == GetMultiplexerAndChannel(global_channel)
  IN  << <<TcaAddr(mc[1]), 2 ^ mc[2]>> >>

\* Bug: a channel that is already the selected one is not written again.
SelectWritesSkipIfSelected(global_channel) ==
  LET mc == GetMultiplexerAndChannel(global_channel)
      already == IF op.ret = "pending" THEN op.already
                 ELSE Selected(global_channel)
  IN  IF already
        THEN <<>>
        ELSE DisableAllWrites \o << <<TcaAddr(mc[1]), 2 ^ mc[2]>> >>

\* _select_channel past its two guards: the writes it issues, in order:
\* all of _disable_all_channels, then the one-bit mask to the target.
SelectWrites(global_channel) ==
  LET mc == GetMultiplexerAndChannel(global_channel)
  IN  DisableAllWrites \o << <<TcaAddr(mc[1]), 2 ^ mc[2]>> >>

\* Bug: the working flag of the multiplexer is not looked at.
SelectableInRange(global_channel) ==
  GetMultiplexerAndChannel(global_channel)[1] # NoMux

\* The two guards of _select_channel (and of init_sensor): the channel is
\* in range and its multiplexer is working.
Selectable(global_channel) ==
  LET mc == GetMultiplexerAndChannel(global_channel)
  IN  mc[1] # NoMux /\ TcaWorking(mc[1])

\* ----------------------------------------------------------- construction

\* __init__, one address of `for addr in tca_addresses`: the probe answers
\* iff a chip is there.  (TCA9548A() does no bus traffic and cannot raise,
\* so the except branch of lines 45-48 is not reachable.)
Probe ==
  /\ pc = "ctor_probe"
  /\ Len(tcas) < Len(tca_addresses)
  /\ LET addr == tca_addresses[Len(tcas) + 1]
     IN  \/ /\ chipPresent[Len(tcas) + 1]
            /\ tcas' = Append(tcas, <<addr, TRUE>>)
            /\ working_multiplexers' = working_multiplexers + 1
         \/ /\ ~chipPresent[Len(tcas) + 1]
            /\ tcas' = Append(tcas, <<addr, FALSE>>)
            /\ UNCHANGED working_multiplexers
  /\ UNCHANGED <<pc, chipPresent, mask, sensors, initialized, busFaults,
                 callVars, mainVars, extVars>>

\* __init__ after the loop: RuntimeError with no working multiplexer.
CtorFatal ==
  /\ pc = "ctor_probe"
  /\ Len(tcas) = Len(tca_addresses)
  /\ working_multiplexers = 0
  /\ pc' = "fatal"
  /\ UNCHANGED <<muxVars, callVars, mainVars, extVars>>

\* __init__ after the loop, with a working multiplexer: the two lists are
\* created and _disable_all_channels() runs; n of its writes are
\* acknowledged, and if that is not all of them the next one raises OSError
\* out of the constructor.
CtorFinish ==
  /\ pc = "ctor_probe"
  /\ Len(tcas) = Len(tca_addresses)
  /\ working_multiplexers # 0
  /\ sensors' = [c \in 1..NumChannels |-> FALSE]
  /\ initialized' = [c \in 1..NumChannels |-> FALSE]
  /\ \E n \in 0..Len(DisableAllWrites) :
       /\ n < Len(DisableAllWrites) => busFaults < MaxBusFaults
       /\ mask' = WriteAll(mask, SubSeq(DisableAllWrites, 1, n))
       /\ pc' = IF n = Len(DisableAllWrites) THEN "ready" ELSE "crashed"
       /\ busFaults' = IF n = Len(DisableAllWrites) THEN busFaults
                       ELSE busFaults + 1
  /\ UNCHANGED <<chipPresent, tcas, working_multiplexers, callVars, mainVars, extVars>>

Construct == Probe \/ CtorFatal \/ CtorFinish

\* ------------------------------------- the multiplexer object, call by call

\* Channels a caller may pass: every channel, and one on each side out of
\* range.
CallChannels == -1..(ChannelsPerMux * Len(tca_addresses))

Idle == pc = "ready" /\ op.ret # "pending"

\* A call begins: its name, its argument, what the argument resolves to
\* (line 90, line 117), whether the argument was the selected channel, and
\* the return value if it returns at once.
Begin(name, ch, ret) ==
  [name |-> name, ch |-> ch, pos |-> 0, ret |-> ret, val |-> 0,
   already |-> Selected(ch), mc |-> GetMultiplexerAndChannel(ch)]

\* _select_channel(c), lines 90-97.
CallSelect(c) ==
  /\ Idle
  /\ op' = Begin("select", c, IF Selectable(c) THEN "pending" ELSE "False")
  /\ busLog' = <<>>
  /\ UNCHANGED <<pc, muxVars, mainVars, extVars>>

\* init_sensor(c), lines 117-130.
CallInitSensor(c) ==
  /\ Idle
  /\ op' = Begin("init_sensor", c, IF Selectable(c) THEN "pending" ELSE "False")
  /\ busLog' = <<>>
  /\ UNCHANGED <<pc, muxVars, mainVars, extVars>>

\* read_range(c), lines 160-166.
CallReadRange(c) ==
  /\ Idle
  /\ op' = Begin("read_range", c,
                 IF ~(0 <= c /\ c < NumChannels) THEN "None"
                 ELSE IF ~initialized[c + 1] THEN "None"
                 ELSE IF ~Selectable(c) THEN "None"
                 ELSE "pending")
  /\ busLog' = <<>>
  /\ UNCHANGED <<pc, muxVars, mainVars, extVars>>

\* The next i2c.writeto of the _select_channel in progress is acknowledged.
WriteOk ==
  /\ pc = "ready"
  /\ op.ret = "pending"
  /\ op.pos < Len(SelectWrites(op.ch))
  /\ LET w == SelectWrites(op.ch)[op.pos + 1]
     IN  /\ mask' = WriteTo(mask, w)
         /\ busLog' = Append(busLog, w)
  /\ op' = [op EXCEPT !.pos = @ + 1]
  /\ UNCHANGED <<pc, chipPresent, tcas, working_multiplexers, sensors,
                 initialized, busFaults, mainVars, extVars>>

\* The next i2c.writeto raises OSError: out of _select_channel, and caught
\* by init_sensor (lines 146-149) or read_range (lines 169-171).
WriteRaises ==
  /\ pc = "ready"
  /\ op.ret = "pending"
  /\ op.pos < Len(SelectWrites(op.ch))
  /\ busFaults < MaxBusFaults
  /\ busFaults' = busFaults + 1
  /\ op' = [op EXCEPT !.ret = CASE op.name = "select" -> "raise"
                                [] op.name = "init_sensor" -> "False"
                                [] OTHER -> "None"]
  /\ initialized' = IF op.name = "init_sensor"
                      THEN [initialized EXCEPT ![op.ch + 1] = FALSE]
                      ELSE initialized
  /\ UNCHANGED <<pc, chipPresent, mask, tcas, working_multiplexers, sensors,
                 busLog, mainVars, extVars>>

\* _select_channel returns True to a direct caller.
SelectReturns ==
  /\ pc = "ready"
  /\ op.ret = "pending"
  /\ op.name = "select"
  /\ op.pos = Len(SelectWrites(op.ch))
  /\ op' = [op EXCEPT !.ret = "True"]
  /\ UNCHANGED <<pc, muxVars, busLog, mainVars, extVars>>

\* init_sensor after the select, lines 133-149: the driver bring-up
\* succeeds only where a sensor is wired, and may fail there too.
SensorBringUp ==
  /\ pc = "ready"
  /\ op.ret = "pending"
  /\ op.name = "init_sensor"
  /\ op.pos = Len(SelectWrites(op.ch))
  /\ \/ /\ op.ch \in Wired
        /\ sensors' = [sensors EXCEPT ![op.ch + 1] = TRUE]
        /\ initialized' = [initialized EXCEPT ![op.ch + 1] = TRUE]
        /\ op' = [op EXCEPT !.ret = "True"]
     \/ /\ initialized' = [initialized EXCEPT ![op.ch + 1] = FALSE]
        /\ op' = [op EXCEPT !.ret = "False"]
        /\ UNCHANGED sensors
  /\ UNCHANGED <<pc, chipPresent, mask, tcas, working_multiplexers, busFaults,
                 busLog, mainVars, extVars>>

\* read_range after the select, lines 168-171: the sensor answers with a
\* distance, or the read raises.
SensorRead ==
  /\ pc = "ready"
  /\ op.ret = "pending"
  /\ op.name = "read_range"
  /\ op.pos = Len(SelectWrites(op.ch))
  /\ \/ \E d \in Readings : op' = [op EXCEPT !.ret = "value", !.val = d]
     \/ op' = [op EXCEPT !.ret = "None"]
  /\ UNCHANGED <<pc, muxVars, busLog, mainVars, extVars>>

MuxCall ==
  \/ \E c \in CallChannels : CallSelect(c)
  \/ \E c \in CallChannels : CallInitSensor(c)
  \/ \E c \in CallChannels : CallReadRange(c)
  \/ WriteOk
  \/ WriteRaises
  \/ SelectReturns
  \/ SensorBringUp
  \/ SensorRead

\* ------------------------------------------------------- main(): constants

\* STAIR_MAPPING: channel -> stair number, 0 for None (not connected).
STAIR_MAPPING ==
  <<9, 10, 0, 0, 11, 12, 13, 14, 1, 2, 3, 4, 5, 6, 7, 8>>

\* STAIR_LED_COUNTS: stair number -> led count.
STAIR_LED_COUNTS ==
  <<114, 114, 114, 114, 114, 112, 112, 114, 112, 114, 114, 114, 114, 114>>

\* TRIGGER_DISTANCE = 609.6 mm, in tenths of a millimetre.
TRIGGER_DISTANCE == 6096

\* The clock unit is 100 ms.  time.sleep(0.1) of _disable_all_channels and
\* of _select_channel.
SETTLE == 1

\* sensor_retry_interval = 5.0 s
sensor_retry_interval == 50

\* update_interval = 0.01 s: on a clock of 100 ms units the elapsed time
\* reaches it exactly when one unit has passed.
update_interval == 1

\* fade_steps=5 of both fade_stair_leds calls of main()
FADE_STEPS == 5

\* test_led_strip: `for brightness in range(0, 256, 150)` ends at 150, and
\* every colour of the gradient has a channel at 255: the brightest channel
\* of a stair lit by the test is int(255 * 150 / 255).
TEST_BRIGHTNESS == 150

\* ------------------------------------------------------- main(): helpers

\* Bug: a distance at the threshold counts as triggered.
BelowTriggerInclusive(tenths) == tenths <= TRIGGER_DISTANCE

\* distance < TRIGGER_DISTANCE, for a distance in tenths of a millimetre
BelowTrigger(tenths) == tenths < TRIGGER_DISTANCE

\* is_triggered = distance < TRIGGER_DISTANCE, for a reading in millimetres
IsTriggered(distance) == BelowTrigger(10 * distance)

\* Bug: the previous state is not compared; every triggered reading and no
\* other counts as a change.
EdgeDetectedLevel(is_triggered, was_triggered) == is_triggered

\* if is_triggered != was_triggered (line 453)
EdgeDetected(is_triggered, was_triggered) == is_triggered # was_triggered

\* Bug: the index is wrapped but not advanced.
NextIndexStay(idx, n) == idx % n

\* Bug: the index advances by two.
NextIndexSkip(idx, n) == (idx + 2) % n

\* current_sensor_idx = (current_sensor_idx + 1) % len(active_sensors)
NextIndex(idx, n) == (idx + 1) % n

\* time elapsed in _select_channel when n of its writes were acknowledged:
\* the sleep of _disable_all_channels is reached after all its writes, the
\* sleep of _select_channel after the last write.
SelectElapsed(ws, n) ==
  IF n = Len(ws) THEN 2 * SETTLE
  ELSE IF n >= Len(ws) - 1 THEN SETTLE
  ELSE 0

\* init_sensor(c) as a whole: every outcome it can have from the current
\* state of the object (return value, the object's lists, the registers,
\* the time it took).
InitSensorOutcomes(c) ==
  IF ~Selectable(c)
    THEN {[ret |-> FALSE, mask |-> mask, initialized |-> initialized,
           sensors |-> sensors, elapsed |-> 0, faults |-> 0]}
    ELSE LET ws == SelectWrites(c)
             off == [initialized EXCEPT ![c + 1] = FALSE]
         IN  \* a write raises: except branch
             {[ret |-> FALSE, mask |-> WriteAll(mask, SubSeq(ws, 1, n)),
               initialized |-> off, sensors |-> sensors,
               elapsed |-> SelectElapsed(ws, n), faults |-> 1] :
                 n \in IF busFaults < MaxBusFaults THEN 0..(Len(ws) - 1) ELSE {}}
             \cup
             \* the driver bring-up raises
             {[ret |-> FALSE, mask |-> WriteAll(mask, ws),
               initialized |-> off, sensors |-> sensors,
               elapsed |-> 2 * SETTLE, faults |-> 0]}
             \cup
             \* the sensor is there and comes up
             (IF c \in Wired
                THEN {[ret |-> TRUE, mask |-> WriteAll(mask, ws),
                       initialized |-> [initialized EXCEPT ![c + 1] = TRUE],
                       sensors |-> [sensors EXCEPT ![c + 1] = TRUE],
                       elapsed |-> 2 * SETTLE, faults |-> 0]}
                ELSE {})

\* read_range(c) as a whole: every outcome (ret "None" or "value" with the
\* distance in val).
ReadRangeOutcomes(c) ==
  IF ~(0 <= c /\ c < NumChannels) \/ ~initialized[c + 1] \/ ~Selectable(c)
    THEN {[ret |-> "None", val |-> 0, mask |-> mask, elapsed |-> 0,
           faults |-> 0]}
    ELSE LET ws == SelectWrites(c)
         IN  \* a write raises: except branch
             {[ret |-> "None", val |-> 0,
               mask |-> WriteAll(mask, SubSeq(ws, 1, n)),
               elapsed |-> SelectElapsed(ws, n), faults |-> 1] :
                 n \in IF busFaults < MaxBusFaults THEN 0..(Len(ws) - 1) ELSE {}}
             \cup
             \* the sensor read raises
             {[ret |-> "None", val |-> 0, mask |-> WriteAll(mask, ws),
               elapsed |-> 2 * SETTLE, faults |-> 0]}
             \cup
             {[ret |-> "value", val |-> d, mask |-> WriteAll(mask, ws),
               elapsed |-> 2 * SETTLE, faults |-> 0] : d \in Readings}

\* Bug: the steps are counted from 0, the last one stops short of the
\* target.
FadeBrightnessShort(current, target, steps, step) ==
  (current * steps + (target - current) * step) \div steps

\* fade_stair_leds: the brightness painted in step `step` (0-based)
\* int(current_brightness + step_size * (step + 1))
FadeBrightness(current, target, steps, step) ==
  (current * steps + (target - current) * (step + 1)) \div steps

\* fade_stair_leds(strip, stair_num, target_brightness, fade_steps): the
\* levels of the stairs when it returns.
FadeStairLeds(levels, stair_num, target, steps) ==
  IF ~strip \/ stair_num \notin DOMAIN STAIR_LED_COUNTS
    THEN levels
    ELSE [levels EXCEPT ![stair_num] =
            FadeBrightness(levels[stair_num], target, steps, steps - 1)]

\* sum(STAIR_LED_COUNTS[i] for i in range(1, n + 1))
RECURSIVE SumCounts(_)
SumCounts(n) == IF n = 0 THEN 0 ELSE STAIR_LED_COUNTS[n] + SumCounts(n - 1)

\* LED_COUNT = sum(STAIR_LED_COUNTS.values()), the length of the strip
LED_COUNT == SumCounts(Len(STAIR_LED_COUNTS))

\* Bug: the stair's own LEDs are counted into its start.
StartLedInclusive(stair_num) == SumCounts(stair_num)

\* start_led = sum(STAIR_LED_COUNTS[i] for i in range(1, stair_num))
StartLed(stair_num) == SumCounts(stair_num - 1)

\* end_led = start_led + STAIR_LED_COUNTS[stair_num] - 1
EndLed(stair_num) == StartLed(stair_num) + STAIR_LED_COUNTS[stair_num] - 1

\* No fade_stair_leds call was made, or it returned at line 339.
NoFade == [stair |-> 0, from |-> 0, to |-> 0, shows |-> 0, leds |-> <<>>]

\* What a fade_stair_leds call does to the strip: the stair, the
\* brightness it found on the stair's first LED, the brightness of its
\* last step, the number of strip.show() calls (one per step, line 363) and
\* the pixels start_led..end_led that every step sets (lines 361-362).
FadeCall(levels, stair_num, target, steps) ==
  IF ~strip \/ stair_num \notin DOMAIN STAIR_LED_COUNTS
    THEN NoFade
    ELSE [stair |-> stair_num, from |-> levels[stair_num],
          to |-> FadeBrightness(levels[stair_num], target, steps, steps - 1),
          shows |-> steps,
          leds |-> <<StartLed(stair_num), EndLed(stair_num)>>]

\* dict assignment d[k] = v
DictSet(d, k, v) == [x \in DOMAIN d \cup {k} |-> IF x = k THEN v ELSE d[x]]

\* Bug: the entry is left in the dict.
DictPopKeep(d, k) == d

\* d.pop(k, None)
DictPop(d, k) == [x \in DOMAIN d \ {k} |-> d[x]]

\* Bug: the first element goes, whatever x is (list.pop(0)).
ListRemoveFirst(l, x) == Tail(l)

\* Bug: the last element goes, whatever x is (list.pop()).
ListRemoveLast(l, x) == SubSeq(l, 1, Len(l) - 1)

\* Bug: the index is wrapped by the size the list had before the removal.
IndexAfterEvictionOldSize(idx, n) == idx % (n + 1)

\* Bug: the index is left as it was, not wrapped.
IndexAfterEvictionNoWrap(idx, n) == idx

\* lines 470-471: current_sensor_idx % len(active_sensors), for n > 0
\* channels left; with none left the index is not touched.
IndexAfterEviction(idx, n) == IF n > 0 THEN idx % n ELSE idx

\* list.remove(x): the first occurrence goes
ListRemove(l, x) ==
  LET i == CHOOSE j \in DOMAIN l : l[j] = x /\ \A k \in 1..(j - 1) : l[k] # x
  IN  SubSeq(l, 1, i - 1) \o SubSeq(l, i + 1, Len(l))

\* The three elapsed times after d more units.
Elapse(d) ==
  /\ since_update' = Min(since_update + d, update_interval)
  /\ since_init' = Min(since_init + d, sensor_retry_interval)
  /\ sincePass' = IF sincePass = -1 THEN -1
                  ELSE Min(sincePass + d, sensor_retry_interval)

\* ------------------------------------------------------- main(): actions

\* main() lines 389-412: init_led_strip() gives a strip or None; with a
\* strip the test pattern runs and ends with clear_all_lights.
LedInit ==
  /\ pc = "ready"
  /\ \E ok \in BOOLEAN : strip' = ok
  /\ stairLevel' = [st \in DOMAIN STAIR_LED_COUNTS |-> 0]
  /\ active_sensors' = <<>>
  /\ current_sensor_idx' = 0
  /\ sensor_states' = <<>>
  /\ current_distances' = <<>>
  /\ since_update' = 0
  /\ since_init' = sensor_retry_interval
  /\ pc' = "loop"
  /\ UNCHANGED <<muxVars, callVars, extVars, channel, sincePass, passGap, lastRead,
                 evicted, ticked>>

\* Bug: the retry interval is not waited for.
DiscoveryDueNoBackoff == Len(active_sensors) = 0

\* len(active_sensors) == 0 and current_time - last_sensor_init >= sensor_retry_interval
DiscoveryDue ==
  Len(active_sensors) = 0 /\ since_init >= sensor_retry_interval

\* len(active_sensors) > 0 and current_time - last_update >= update_interval
PollDue ==
  Len(active_sensors) > 0 /\ since_update >= update_interval

\* lines 421-425: a discovery pass begins.
DiscoveryStart ==
  /\ pc = "loop"
  /\ DiscoveryDue
  /\ pc' = "discover"
  /\ channel' = 0
  /\ passGap' = sincePass
  /\ sincePass' = 0
  /\ evicted' = {}
  /\ ticked' = TRUE
  /\ UNCHANGED <<muxVars, callVars, extVars, ledVars, active_sensors,
                 current_sensor_idx, sensor_states, current_distances,
                 lastRead, since_update, since_init>>

\* lines 425-430: one channel of the pass.
DiscoveryChannel ==
  /\ pc = "discover"
  /\ channel < 16
  /\ \E out \in InitSensorOutcomes(channel) :
       /\ mask' = out.mask
       /\ busFaults' = busFaults + out.faults
       /\ initialized' = out.initialized
       /\ sensors' = out.sensors
       /\ IF out.ret
            THEN /\ active_sensors' = Append(active_sensors, channel)
                 /\ sensor_states' = DictSet(sensor_states, channel, FALSE)
            ELSE UNCHANGED <<active_sensors, sensor_states>>
       /\ Elapse(out.elapsed)
  /\ channel' = channel + 1
  /\ UNCHANGED <<pc, chipPresent, tcas, working_multiplexers, callVars, extVars,
                 ledVars, current_sensor_idx, current_distances, lastRead,
                 evicted, ticked, passGap>>

\* Bug: the clock is read again when the pass ends
\* (last_sensor_init = time.time()).
SinceInitAtPassEnd(since_start) == 0

\* last_sensor_init = current_time (line 435), the time sampled at line 418
\* when the iteration of the pass began: the time since then.
SinceInitAfterPass(since_start) == since_start

\* lines 432-436: the pass ends.
DiscoveryEnd ==
  /\ pc = "discover"
  /\ channel = 16
  /\ since_init' = SinceInitAfterPass(sincePass)
  /\ pc' = "loop"
  /\ UNCHANGED <<muxVars, callVars, extVars, ledVars, loopVars, since_update,
                 sincePass, passGap>>

\* lines 439-481: one polling iteration.  lastRead keeps the read_range
\* call, the edge it made and the fade_stair_leds call of lines 461/464.
Poll ==
  /\ pc = "loop"
  /\ ~DiscoveryDue
  /\ PollDue
  /\ LET ch == active_sensors[current_sensor_idx + 1]
     IN  \E out \in ReadRangeOutcomes(ch) :
           /\ mask' = out.mask
           /\ busFaults' = busFaults + out.faults
           /\ lastRead' =
                [ch |-> ch, ret |-> out.ret, val |-> out.val,
                 edge |-> IF out.ret # "value"
                            \/ ~EdgeDetected(IsTriggered(out.val), sensor_states[ch])
                            THEN "none"
                          ELSE IF IsTriggered(out.val) THEN "rise" ELSE "fall",
                 fade |-> IF out.ret = "value"
                             /\ EdgeDetected(IsTriggered(out.val), sensor_states[ch])
                             /\ STAIR_MAPPING[ch + 1] # 0
                            THEN FadeCall(stairLevel, STAIR_MAPPING[ch + 1],
                                   IF IsTriggered(out.val) THEN 255 ELSE 0,
                                   FADE_STEPS)
                            ELSE NoFade]
           /\ IF out.ret = "value"
                THEN LET was_triggered == sensor_states[ch]
                         is_triggered == IsTriggered(out.val)
                         stair_num == STAIR_MAPPING[ch + 1]
                     IN  /\ current_distances' =
                              DictSet(current_distances, ch, out.val)
                         /\ IF EdgeDetected(is_triggered, was_triggered)
                              THEN /\ sensor_states' =
                                        DictSet(sensor_states, ch, is_triggered)
                                   /\ stairLevel' =
                                        IF stair_num # 0
                                          THEN FadeStairLeds(stairLevel, stair_num,
                                                 IF is_triggered THEN 255 ELSE 0,
                                                 FADE_STEPS)
                                          ELSE stairLevel
                              ELSE UNCHANGED <<sensor_states, stairLevel>>
                         /\ current_sensor_idx' =
                              NextIndex(current_sensor_idx, Len(active_sensors))
                         /\ since_update' = Min(out.elapsed, update_interval)
                         /\ since_init' =
                              Min(since_init + out.elapsed, sensor_retry_interval)
                         /\ sincePass' =
                              Min(sincePass + out.elapsed, sensor_retry_interval)
                         /\ UNCHANGED <<active_sensors, evicted>>
                ELSE /\ active_sensors' = ListRemove(active_sensors, ch)
                     /\ sensor_states' = DictPop(sensor_states, ch)
                     /\ current_distances' = DictPop(current_distances, ch)
                     /\ current_sensor_idx' =
                          IndexAfterEviction(current_sensor_idx,
                                             Len(active_sensors'))
                     /\ evicted' = evicted \cup {ch}
                     /\ Elapse(out.elapsed)
                     /\ UNCHANGED stairLevel
  /\ ticked' = TRUE
  /\ UNCHANGED <<pc, chipPresent, tcas, working_multiplexers, sensors,
                 initialized, callVars, extVars, strip, channel, passGap>>

\* lines 482-484: nothing is due; time.sleep(0.001).  Iterations during
\* which the clock shows no new unit change nothing: one step stands for
\* the idle iterations of one clock unit.
IdleSleep ==
  /\ pc = "loop"
  /\ ~DiscoveryDue
  /\ ~PollDue
  /\ Elapse(1)
  /\ ticked' = TRUE
  /\ UNCHANGED <<pc, muxVars, callVars, extVars, ledVars, active_sensors,
                 current_sensor_idx, sensor_states, current_distances,
                 channel, lastRead, evicted, passGap>>

\* Bug: the pixels are set to off but the strip is not shown.
ClearAllLightsNoShow(levels) == levels

\* clear_all_lights: every pixel is set to Color(0, 0, 0) and the strip is
\* shown.
ClearAllLights(levels) == [st \in DOMAIN levels |-> 0]

\* What the LEDs show when a KeyboardInterrupt arrives in the loop: what
\* the latest completed step left, or, in a polling iteration that found a
\* changed state, what one of the steps of fade_stair_leds has painted.
LevelsAtInterrupt ==
  {stairLevel} \cup
  (IF pc = "loop" /\ ~DiscoveryDue /\ PollDue /\ strip
     THEN LET ch == active_sensors[current_sensor_idx + 1]
              stair_num == STAIR_MAPPING[ch + 1]
              target == IF sensor_states[ch] THEN 0 ELSE 255
          IN  IF stair_num = 0 THEN {}
              ELSE {[stairLevel EXCEPT ![stair_num] =
                       FadeBrightness(stairLevel[stair_num], target,
                                      FADE_STEPS, step)] :
                      step \in 0..(FADE_STEPS - 1)}
     ELSE {})

\* lines 486-490: KeyboardInterrupt inside the try block, in a discovery
\* pass, a polling iteration (its fade included) or the idle sleep; the
\* handler clears and shows the strip if there is one, and main() returns.
Interrupt ==
  /\ pc \in {"loop", "discover"}
  /\ \E lv \in LevelsAtInterrupt :
       /\ litAtInterrupt' = \E st \in DOMAIN lv : lv[st] > 0
       /\ stairLevel' = IF strip THEN ClearAllLights(lv) ELSE lv
  /\ pc' = "exited"
  /\ UNCHANGED <<muxVars, callVars, strip, loopVars, clockVars, audioVars, colorVars>>

\* lines 391-400: KeyboardInterrupt before the try block is entered, in
\* test_led_strip with the first k stairs lit or in the wait that follows
\* it: no handler, the exception ends main().
StartupInterrupted ==
  /\ pc = "ready"
  /\ \E ok \in BOOLEAN, k \in 0..Len(STAIR_LED_COUNTS) :
       /\ strip' = ok
       /\ stairLevel' = [st \in DOMAIN STAIR_LED_COUNTS |->
                           IF ok /\ st <= k THEN TEST_BRIGHTNESS ELSE 0]
       /\ litAtInterrupt' = (ok /\ k > 0)
  /\ pc' = "killed"
  /\ UNCHANGED <<muxVars, callVars, loopVars, clockVars, audioVars, colorVars>>

Loop ==
  \/ DiscoveryStart
  \/ DiscoveryChannel
  \/ DiscoveryEnd
  \/ Poll
  \/ IdleSleep

\* ------------------------------------------------------- BluetoothAudio

\* play_sound calls in one run of the program.
MaxPlays == 2

\* max_attempts = 3
max_attempts == 3

\* What one subprocess.run can do: return with the output looked for,
\* return without it, or raise.
Outcomes == {"yes", "no", "raise"}

NoCall == [pc |-> "returned", ret |-> "False", by |-> "none", status |-> "none",
           powered |-> FALSE, attempts |-> 0, backoffs |-> 0,
           succeeded |-> FALSE]

\* connect_bluetooth is entered (lines 26-43, up to the first command):
\* with no MAC and a name the devices are listed; with neither the call
\* returns False; with a MAC the status is queried.
ConnBegin(by) ==
  [NoCall EXCEPT
     !.by = by,
     !.pc = IF ~device_mac /\ device_name THEN "devices"
            ELSE IF ~device_mac THEN "returned"
            ELSE "info",
     !.ret = IF ~device_mac /\ ~device_name THEN "False" ELSE "pending"]

ConnReturn(c, ret) == [c EXCEPT !.pc = "returned", !.ret = ret]

\* lines 28-43: `bluetoothctl devices`; the first line holding the name
\* gives the MAC; without a MAC the call returns False.
ConnDevices ==
  /\ conn.pc = "devices"
  /\ \E out \in Outcomes :
       CASE out = "yes" -> /\ device_mac' = TRUE
                           /\ conn' = [conn EXCEPT !.pc = "info"]
         [] out = "no" -> /\ conn' = ConnReturn(conn, "False")
                          /\ UNCHANGED device_mac
         [] OTHER -> /\ conn' = ConnReturn(conn, "False")
                     /\ UNCHANGED device_mac
  /\ UNCHANGED <<pc, muxVars, callVars, mainVars, colorVars, litAtInterrupt, sound_file,
                 device_name, connected, play, plays>>

\* lines 45-54: `bluetoothctl info`; "Connected: yes" sets connected and
\* returns True.
ConnInfo ==
  /\ conn.pc = "info"
  /\ \E out \in Outcomes :
       CASE out = "yes" -> /\ connected' = TRUE
                           /\ conn' = [ConnReturn(conn, "True") EXCEPT !.status = "yes"]
         [] out = "no" -> /\ conn' = [conn EXCEPT !.pc = "power", !.status = "no"]
                          /\ UNCHANGED connected
         [] OTHER -> /\ conn' = ConnReturn(conn, "False")
                     /\ UNCHANGED connected
  /\ UNCHANGED <<pc, muxVars, callVars, mainVars, colorVars, litAtInterrupt, sound_file,
                 device_mac, device_name, play, plays>>

\* lines 58-60: `bluetoothctl power on`, then a wait of one second.
ConnPower ==
  /\ conn.pc = "power"
  /\ \E raised \in BOOLEAN :
       conn' = IF raised
                 THEN [ConnReturn(conn, "False") EXCEPT !.powered = TRUE]
                 ELSE [conn EXCEPT !.pc = "attempt", !.powered = TRUE]
  /\ UNCHANGED <<pc, muxVars, callVars, mainVars, colorVars, litAtInterrupt, sound_file,
                 device_mac, device_name, connected, play, plays>>

\* Bug: the wait follows every failed attempt, the last one too.
BackoffAfterAlways(attempt) == TRUE

\* if attempt < max_attempts - 1 (line 79), attempt counted from 0
BackoffAfter(attempt) == attempt < max_attempts - 1

\* lines 64-84, one turn of `for attempt in range(max_attempts)`:
\* `bluetoothctl connect`; "Connection successful" sets connected and
\* returns True; otherwise the wait of line 81 if it is due, and after the
\* last turn the call returns False.
ConnAttempt ==
  /\ conn.pc = "attempt"
  /\ LET attempt == conn.attempts
         tried == [conn EXCEPT !.attempts = attempt + 1]
     IN  \E out \in Outcomes :
           CASE out = "yes" ->
                  /\ connected' = TRUE
                  /\ conn' = [ConnReturn(tried, "True") EXCEPT !.succeeded = TRUE]
             [] out = "no" ->
                  /\ conn' =
                       LET waited == IF BackoffAfter(attempt)
                                       THEN [tried EXCEPT !.backoffs = @ + 1]
                                       ELSE tried
                       IN  IF attempt + 1 < max_attempts
                             THEN waited
                             ELSE ConnReturn(waited, "False")
                  /\ UNCHANGED connected
             [] OTHER ->
                  /\ conn' = ConnReturn(tried, "False")
                  /\ UNCHANGED connected
  /\ UNCHANGED <<pc, muxVars, callVars, mainVars, colorVars, litAtInterrupt, sound_file,
                 device_mac, device_name, play, plays>>

ConnectStep == ConnDevices \/ ConnInfo \/ ConnPower \/ ConnAttempt

\* No method of the object is running.
AudioIdle == conn.pc = "returned" /\ play.pc = "returned"

\* BluetoothAudio(device_mac, device_name), lines 9-13 (as in
\* setup_bluetooth_audio, line 142, which gives a name only).
NewBluetoothAudio ==
  /\ AudioIdle
  /\ \E mac, name \in BOOLEAN :
       /\ device_mac' = mac
       /\ device_name' = name
  /\ sound_file' = FALSE
  /\ connected' = FALSE
  /\ UNCHANGED <<pc, muxVars, callVars, mainVars, colorVars, litAtInterrupt, conn, play,
                 plays>>

\* set_sound_file: the path exists or it does not.
SetSoundFile ==
  /\ AudioIdle
  /\ \E exists \in BOOLEAN :
       sound_file' = IF exists THEN TRUE ELSE sound_file
  /\ UNCHANGED <<pc, muxVars, callVars, mainVars, colorVars, litAtInterrupt, device_mac,
                 device_name, connected, conn, play, plays>>

\* connect_bluetooth called from outside the object (setup_bluetooth_audio,
\* line 144).
CallConnect ==
  /\ AudioIdle
  /\ conn' = ConnBegin("caller")
  /\ UNCHANGED <<pc, muxVars, callVars, mainVars, colorVars, litAtInterrupt, sound_file,
                 device_mac, device_name, connected, play, plays>>

NoPlay == [pc |-> "returned", ret |-> "False", wasConnected |-> FALSE,
           hadFile |-> FALSE, preconnect |-> "none", reconnects |-> 0, playbacks |-> 0,
           first |-> "none", last |-> "none"]

\* Bug: the test is inverted (`if self.connected`).
ConnectFirstInverted(is_connected) == is_connected

\* Bug: the connection is not looked at before the playback.
ConnectFirstNever(is_connected) == FALSE

\* if not self.connected (line 97)
ConnectFirst(is_connected) == ~is_connected

\* Bug: a failed playback leaves connected as it was.
ConnectedAfterKept(ok, is_connected) == is_connected

\* lines 120-129: a playback that did not succeed sets connected to False.
ConnectedAfter(ok, is_connected) == IF ok THEN is_connected ELSE FALSE

\* play_sound is entered (lines 92-99): no sound file, return False; not
\* connected, connect_bluetooth is called; else the playback is next.
CallPlaySound ==
  /\ AudioIdle
  /\ plays < MaxPlays
  /\ plays' = plays + 1
  /\ LET begun == [NoPlay EXCEPT !.wasConnected = connected,
                                 !.hadFile = sound_file, !.ret = "pending"]
     IN  IF ~sound_file
           THEN /\ play' = [begun EXCEPT !.ret = "False"]
                /\ UNCHANGED conn
           ELSE IF ConnectFirst(connected)
             THEN /\ play' = [begun EXCEPT !.pc = "connect"]
                  /\ conn' = ConnBegin("play")
             ELSE /\ play' = [begun EXCEPT !.pc = "paplay"]
                  /\ UNCHANGED conn
  /\ UNCHANGED <<pc, muxVars, callVars, mainVars, colorVars, litAtInterrupt, sound_file,
                 device_mac, device_name, connected>>

\* lines 99-101: the connect_bluetooth of line 99 has returned.
PlayConnected ==
  /\ play.pc = "connect"
  /\ conn.pc = "returned"
  /\ play' = IF conn.ret = "True"
               THEN [play EXCEPT !.pc = "paplay", !.preconnect = "True"]
               ELSE [play EXCEPT !.pc = "returned", !.ret = "False",
                                 !.preconnect = "False"]
  /\ UNCHANGED <<pc, muxVars, callVars, mainVars, colorVars, litAtInterrupt, sound_file,
                 device_mac, device_name, connected, conn, plays>>

\* lines 104-113 and 120-130: the first paplay; it succeeds, or it raises,
\* or it returns a non-zero code and connect_bluetooth is called.
PlayFirst ==
  /\ play.pc = "paplay"
  /\ LET played == [play EXCEPT !.playbacks = @ + 1]
     IN  \E out \in Outcomes :
           CASE out = "yes" ->
                  /\ play' = [played EXCEPT !.pc = "returned", !.ret = "True",
                                            !.first = "ok", !.last = "ok"]
                  /\ connected' = ConnectedAfter(TRUE, connected)
                  /\ UNCHANGED conn
             [] out = "no" ->
                  /\ play' = [played EXCEPT !.pc = "reconnect", !.first = "fail",
                                            !.last = "fail", !.reconnects = @ + 1]
                  /\ conn' = ConnBegin("play")
                  /\ UNCHANGED connected
             [] OTHER ->
                  /\ play' = [played EXCEPT !.pc = "returned", !.ret = "False",
                                            !.first = "raise", !.last = "raise"]
                  /\ connected' = ConnectedAfter(FALSE, connected)
                  /\ UNCHANGED conn
  /\ UNCHANGED <<pc, muxVars, callVars, mainVars, colorVars, litAtInterrupt, sound_file,
                 device_mac, device_name, plays>>

\* lines 113-130: the connect_bluetooth of line 113 has returned; if it
\* failed the first result stands, else paplay runs once more.
PlayRetry ==
  /\ play.pc = "reconnect"
  /\ conn.pc = "returned"
  /\ IF conn.ret # "True"
       THEN /\ play' = [play EXCEPT !.pc = "returned", !.ret = "False"]
            /\ connected' = ConnectedAfter(FALSE, connected)
       ELSE LET played == [play EXCEPT !.playbacks = @ + 1, !.pc = "returned"]
            IN  \E out \in Outcomes :
                  /\ play' = [played EXCEPT
                                !.ret = IF out = "yes" THEN "True" ELSE "False",
                                !.last = CASE out = "yes" -> "ok"
                                           [] out = "no" -> "fail"
                                           [] OTHER -> "raise"]
                  /\ connected' = ConnectedAfter(out = "yes", connected)
  /\ UNCHANGED <<pc, muxVars, callVars, mainVars, colorVars, litAtInterrupt, sound_file,
                 device_mac, device_name, conn, plays>>

PlayStep == PlayConnected \/ PlayFirst \/ PlayRetry

AudioCall == NewBluetoothAudio \/ SetSoundFile \/ CallConnect \/ CallPlaySound

\* ---------------------------------------------- get_color_from_distance

\* MIN_DISTANCE = 200.0 and MAX_DISTANCE = 2000.0
MIN_DISTANCE == 200
MAX_DISTANCE == 2000

\* The largest distance given to get_color_from_distance; the smallest is
\* the 150 mm of the clamping example.
MaxColorInput == 2500
ColorInputs == 150..MaxColorInput

\* Python floats are IEEE 754 doubles: every operation gives the exact
\* result rounded to 53 significant bits, ties to even.  A value is kept
\* here as FixBytes bytes, most significant first, of which the first
\* FixInt are the integer part: all values of this function are below 512
\* and are multiples of 2^-64.  The rounding works on the FixBits bits of
\* the bytes.  (Each value is built as a tuple, `\o <<>>`, not left as a
\* function expression.)
FixBytes == 10
FixInt == 2
FixBits == 80
Mantissa == 53

Max(a, b) == IF a > b THEN a ELSE b

FixOfInt(n) ==
  [j \in 1..FixBytes |-> IF j <= FixInt THEN (n \div 256 ^ (FixInt - j)) % 256 ELSE 0]
    \o <<>>

\* int(x) of a value that is not negative: its integer part.
IntOf(a) == 256 * a[1] + a[2]

ToBits(a) ==
  [k \in 1..FixBits |-> (a[((k - 1) \div 8) + 1] \div 2 ^ (7 - ((k - 1) % 8))) % 2]
    \o <<>>

ToBytes(bits) ==
  [j \in 1..FixBytes |->
     LET o == 8 * (j - 1)
     IN  128 * bits[o + 1] + 64 * bits[o + 2] + 32 * bits[o + 3]
         + 16 * bits[o + 4] + 8 * bits[o + 5] + 4 * bits[o + 6]
         + 2 * bits[o + 7] + bits[o + 8]] \o <<>>

\* The first n bytes after the point of r / den, for r < den, and the
\* remainder they leave.
RECURSIVE DivBytes(_, _, _)
DivBytes(r, den, n) ==
  IF n = 0 THEN <<>>
  ELSE <<(256 * r) \div den>> \o DivBytes((256 * r) % den, den, n - 1)

RECURSIVE DivRem(_, _, _)
DivRem(r, den, n) ==
  IF n = 0 THEN r ELSE DivRem((256 * r) % den, den, n - 1)

\* One unit is added at bit pos; the carry runs to the nearest 0 above.
AddBit(bits, pos) ==
  LET z == CHOOSE k \in 1..pos :
             bits[k] = 0 /\ \A m \in (k + 1)..pos : bits[m] = 1
  IN  [k \in 1..FixBits |->
         IF k = z THEN 1 ELSE IF k > z /\ k <= pos THEN 0 ELSE bits[k]] \o <<>>

\* The double nearest to the value a (+ something below its last bit when
\* sticky), ties to even.
Round53(a, sticky) ==
  LET bits == ToBits(a)
  IN  IF \A k \in 1..FixBits : bits[k] = 0 THEN a
      ELSE LET lead == CHOOSE k \in 1..FixBits :
                         bits[k] = 1 /\ \A m \in 1..(k - 1) : bits[m] = 0
               last == lead + Mantissa - 1
           IN  IF last >= FixBits THEN a
               ELSE LET guard == bits[last + 1]
                        rest == sticky \/ \E k \in (last + 2)..FixBits : bits[k] = 1
                        cut == [k \in 1..FixBits |->
                                  IF k <= last THEN bits[k] ELSE 0] \o <<>>
                    IN  IF guard = 1 /\ (rest \/ bits[last] = 1)
                          THEN ToBytes(AddBit(cut, last))
                          ELSE ToBytes(cut)

\* a - b for a >= b, byte by byte from the last one, with the borrow.
RECURSIVE SubFrom(_, _, _, _)
SubFrom(a, b, k, borrow) ==
  IF k = 0 THEN <<>>
  ELSE LET dlt == a[k] - b[k] - borrow
       IN  SubFrom(a, b, k - 1, IF dlt < 0 THEN 1 ELSE 0) \o <<(dlt + 256) % 256>>

FloatSub(a, b) == Round53(SubFrom(a, b, FixBytes, 0), FALSE)

\* x / y for integers 0 <= x <= y
FloatDiv(x, y) ==
  LET whole == x \div y
      r == x % y
      bytes == SubSeq(FixOfInt(whole), 1, FixInt) \o DivBytes(r, y, FixBytes - FixInt)
  IN  Round53(bytes, DivRem(r, y, FixBytes - FixInt) # 0)

\* 255 * a, byte by byte from the last one, with the carry.
RECURSIVE MulFrom(_, _, _, _)
MulFrom(a, factor, k, carry) ==
  IF k = 0 THEN <<>>
  ELSE LET t == a[k] * factor + carry
       IN  MulFrom(a, factor, k - 1, t \div 256) \o <<t % 256>>

FloatMul(factor, a) == Round53(MulFrom(a, factor, FixBytes, 0), FALSE)

\* Bug: the distance is not clamped from above.
ClampLowerOnly(d) == Max(MIN_DISTANCE, d)

\* distance = max(MIN_DISTANCE, min(distance, MAX_DISTANCE))
Clamp(d) == Max(MIN_DISTANCE, Min(d, MAX_DISTANCE))

\* intensity = 1.0 - ((distance - MIN_DISTANCE) / (MAX_DISTANCE - MIN_DISTANCE))
Intensity(d) ==
  FloatSub(FixOfInt(1), FloatDiv(Clamp(d) - MIN_DISTANCE, MAX_DISTANCE - MIN_DISTANCE))

\* get_color_from_distance: Color(red, green, blue)
GetColorFromDistance(d) ==
  LET intensity == Intensity(d)
      red == IntOf(FloatMul(255, intensity))
      blue == IntOf(FloatMul(255, FloatSub(FixOfInt(1), intensity)))
      green == 0
  IN  <<red, green, blue>>

NoColor == <<-1, -1, -1>>

\* get_color_from_distance is called for a distance and for the next one.
ApplyColor ==
  /\ color = NoColor
  /\ color' = GetColorFromDistance(distance_in)
  /\ colorOfNext' = GetColorFromDistance(distance_in + 1)
  /\ UNCHANGED <<pc, muxVars, callVars, mainVars, litAtInterrupt, audioVars,
                 distance_in>>

\* ---------------------------------------------------------- specifications

\* The program before its first statement, the hardware and the argument
\* of get_color_from_distance left open.
InitProgram ==
  /\ pc = "ctor_probe"
  /\ tcas = <<>>
  /\ working_multiplexers = 0
  /\ sensors = <<>>
  /\ initialized = <<>>
  /\ busFaults = 0
  /\ op = [name |-> "none", ch |-> 0, pos |-> 0, ret |-> "None", val |-> 0,
           already |-> FALSE, mc |-> <<NoMux, NoMux>>]
  /\ busLog = <<>>
  /\ strip = FALSE
  /\ stairLevel = [st \in DOMAIN STAIR_LED_COUNTS |-> 0]
  /\ active_sensors = <<>>
  /\ current_sensor_idx = 0
  /\ sensor_states = <<>>
  /\ current_distances = <<>>
  /\ channel = 0
  /\ since_update = 0
  /\ since_init = 0
  /\ sincePass = -1
  /\ passGap = -1
  /\ lastRead = [ch |-> -1, ret |-> "None", val |-> 0, edge |-> "none",
                 fade |-> NoFade]
  /\ evicted = {}
  /\ ticked = FALSE
  /\ litAtInterrupt = FALSE
  /\ sound_file = FALSE
  /\ device_mac = FALSE
  /\ device_name = FALSE
  /\ connected = FALSE
  /\ conn = NoCall
  /\ play = NoPlay
  /\ plays = 0
  /\ color = NoColor
  /\ colorOfNext = NoColor

Init ==
  /\ chipPresent \in [DOMAIN tca_addresses -> BOOLEAN]
  /\ mask \in [DOMAIN tca_addresses -> Leftover]
  /\ \A i \in DOMAIN tca_addresses : ~chipPresent[i] => mask[i] = 0
  /\ Cardinality({i \in DOMAIN tca_addresses : mask[i] # 0}) <= 1
  /\ distance_in = MIN_DISTANCE
  /\ InitProgram

\* get_color_from_distance alone, for every distance of ColorInputs.
InitColor ==
  /\ chipPresent = [i \in DOMAIN tca_addresses |-> TRUE]
  /\ mask = [i \in DOMAIN tca_addresses |-> 0]
  /\ distance_in \in ColorInputs
  /\ InitProgram

NextMux == Construct \/ MuxCall

SpecMux == Init /\ [][NextMux]_vars

Next == Construct \/ LedInit \/ Loop \/ Interrupt \/ StartupInterrupted

Spec == Init /\ [][Next]_vars

\* main() with a loop that keeps running: `while True` has no blocking
\* statement, so an iteration that can run does run, and the clock goes on
\* through the idle sleep.
SpecRun == Init /\ [][Next]_vars /\ WF_vars(Loop)

\* The BluetoothAudio object under arbitrary calls; every command it runs
\* returns or raises, so a call in progress goes on.
NextAudio == AudioCall \/ ConnectStep \/ PlayStep

SpecColor == InitColor /\ [][ApplyColor]_vars

SpecAudio ==
  Init /\ [][NextAudio]_vars /\ WF_vars(ConnectStep) /\ WF_vars(PlayStep)

\* ------------------------------------------------- claims: the multiplexer

\* Number of enabled channel bits of a register value.
RECURSIVE BitCount(_)
BitCount(byte) == IF byte = 0 THEN 0 ELSE (byte % 2) + BitCount(byte \div 2)

\* Number of channels enabled on the bus, over all multiplexer chips.
RECURSIVE EnabledOver(_)
EnabledOver(chips) ==
  IF chips = {} THEN 0
  ELSE LET i == CHOOSE j \in chips : TRUE
       IN  BitCount(mask[i]) + EnabledOver(chips \ {i})

EnabledChannels == EnabledOver(DOMAIN mask)

Constructed == pc \in {"ready", "loop", "discover"}

\* C1: once the VL53L0XMultiplexer is constructed, in every state, the
\* states between the single bus writes of _disable_all_channels and
\* _select_channel included, at most one channel is enabled over all
\* multiplexer chips.
C1_AtMostOneChannel == Constructed => EnabledChannels <= 1

\* C1 witness: in the middle of a select, the first chip already zeroed,
\* the second chip still holds the channel selected before.
C1_Witness ==
  /\ Constructed
  /\ op.ret = "pending"
  /\ op.pos = 1
  /\ op.ch < ChannelsPerMux
  /\ mask[1] = 0
  /\ mask[2] # 0

\* C2 as stated: whenever _select_channel returns, for every argument,
\* exactly one channel is enabled.
C2_Original ==
  (op.name = "select" /\ op.ret \in {"True", "False"}) => EnabledChannels = 1

\* C2 amended: whenever _select_channel returns True, exactly one channel
\* is enabled over all chips, and it is the channel asked for.
C2_SelectLeavesOne ==
  (op.name = "select" /\ op.ret = "True")
    => /\ EnabledChannels = 1
       /\ mask[(op.ch \div ChannelsPerMux) + 1] = 2 ^ (op.ch % ChannelsPerMux)

\* C2 witness: a select that returned True for a channel of the second
\* multiplexer while the first one is working too.
C2_Witness ==
  /\ op.name = "select"
  /\ op.ret = "True"
  /\ op.ch >= ChannelsPerMux
  /\ working_multiplexers = 2

\* The writes C3 asks of a successful select of channel c: a zero to every
\* multiplexer address that probed as working, in address order, then the
\* one-bit mask to the address of c's multiplexer.
ZeroToEachWorking ==
  LET ws == SelectSeq(tcas, LAMBDA t : t[2])
  IN  [i \in 1..Len(ws) |-> <<ws[i][1], 0>>]

C3_Expected(c) ==
  ZeroToEachWorking
    \o << <<tca_addresses[(c \div ChannelsPerMux) + 1], 2 ^ (c % ChannelsPerMux)>> >>

\* C3: every successful select(c) has written, in this order, a zero mask
\* to every working multiplexer and then the mask 1 << (c mod 8) to the
\* target multiplexer only, also when c was the selected channel already.
C3_DisableThenEnable ==
  (op.name = "select" /\ op.ret = "True") => busLog = C3_Expected(op.ch)

\* C3 witness: a successful select of the channel that was selected when
\* the call began, with both multiplexers working.
C3_Witness ==
  /\ op.name = "select"
  /\ op.ret = "True"
  /\ op.already
  /\ working_multiplexers = 2
  /\ Len(busLog) = 3

\* The channel is out of range, or its multiplexer did not probe as
\* working.
C4_BadChannel(c) ==
  \/ c < 0
  \/ c >= ChannelsPerMux * Len(tca_addresses)
  \/ ~chipPresent[(c \div ChannelsPerMux) + 1]

\* C4: select(c) for a channel of a non-working multiplexer, or out of
\* range, returns failure and writes nothing to the bus: the step that
\* makes the call leaves every register as it was, and no write follows.
C4_BadSelectNoWrite ==
  /\ []((Constructed /\ op.name = "select" /\ C4_BadChannel(op.ch))
          => (op.ret = "False" /\ busLog = <<>>))
  /\ [][(op'.name = "select" /\ op' # op /\ C4_BadChannel(op'.ch))
          => mask' = mask]_vars

\* C4 witness: a select of a channel of the non-working second
\* multiplexer has returned False while a channel of the first is enabled.
C4_Witness ==
  /\ op.name = "select"
  /\ op.ret = "False"
  /\ op.ch >= ChannelsPerMux
  /\ op.ch < ChannelsPerMux * Len(tca_addresses)
  /\ mask[1] # 0

\* C17: every call resolves its channel g to (g div 8, g mod 8) when g is
\* one of the 8 * N channels of the N configured addresses, whether or not
\* the multiplexers probed as working, so that g = index * 8 + local, and
\* to (None, None) otherwise.
C17_ChannelResolution ==
  (Constructed /\ op.name # "none")
    => IF 0 <= op.ch /\ op.ch < 8 * Len(tca_addresses)
         THEN /\ op.mc = <<op.ch \div 8, op.ch % 8>>
              /\ op.mc[1] * 8 + op.mc[2] = op.ch
              /\ op.ch = 9 => op.mc = <<1, 1>>
         ELSE op.mc = <<NoMux, NoMux>>

\* C17 witness: channel 9 was resolved to multiplexer 1, local channel 1,
\* while multiplexer 0 is not working.
C17_Witness ==
  /\ Constructed
  /\ op.name = "select"
  /\ op.ch = 9
  /\ op.mc = <<1, 1>>
  /\ ~tcas[1][2]

\* ---------------------------------------------- claims: the control loop

\* The addresses whose probe was answered.
ProbedOk == {i \in DOMAIN tca_addresses : chipPresent[i]}

\* C5 as stated: once the constructor is over, with no address probed
\* successfully the fatal error was raised and no loop iteration ever runs,
\* and with at least one probed successfully the construction succeeded,
\* the addresses that did not answer marked as non-working.
C5_Claim ==
  pc # "ctor_probe"
    => /\ ProbedOk = {} => (pc = "fatal" /\ ~ticked)
       /\ ProbedOk # {}
            => /\ pc \notin {"fatal", "crashed"}
               /\ \A i \in DOMAIN tca_addresses : tcas[i][2] = chipPresent[i]

\* C6: a channel whose read returned None is out of the active set when
\* that loop iteration ends, and is neither read nor in the active set
\* again before the next discovery pass begins.
C6_EvictedStaysOut ==
  /\ [](evicted \cap Range(active_sensors) = {})
  /\ [][Poll => /\ active_sensors[current_sensor_idx + 1] \notin evicted
                /\ lastRead'.ret = "None"
                     => /\ lastRead'.ch \notin Range(active_sensors')
                        /\ lastRead'.ch \in evicted']_vars

\* C6 witness: with a channel evicted, a later iteration has read another
\* channel successfully.
C6_Witness ==
  /\ pc = "loop"
  /\ evicted # {}
  /\ lastRead.ret = "value"
  /\ lastRead.ch \notin evicted
  /\ lastRead.ch \in Range(active_sensors)

\* C7: a discovery pass begins only with an empty active set, and begins
\* at least sensor_retry_interval after the pass before it began.
C7_DiscoveryBackoff ==
  /\ (pc = "discover" /\ channel = 0) => active_sensors = <<>>
  /\ passGap = -1 \/ passGap >= sensor_retry_interval

\* C7 witness: a second pass is running, begun a full interval after the
\* first.
C7_Witness ==
  /\ pc = "discover"
  /\ passGap >= sensor_retry_interval

\* C8: a polling iteration reads the channel at the round-robin index, and
\* after a successful reading that distance is stored for the channel and
\* the index is (index + 1) mod the size of the active set.
C8_PollOneInTurn ==
  [][Poll => /\ lastRead'.ch = active_sensors[current_sensor_idx + 1]
             /\ lastRead'.ret = "value"
                  => /\ lastRead'.ch \in DOMAIN current_distances'
                     /\ current_distances'[lastRead'.ch] = lastRead'.val
                     /\ active_sensors' = active_sensors
                     /\ current_sensor_idx' =
                          (current_sensor_idx + 1) % Len(active_sensors)]_vars

\* C8 witness: the last of two active channels was read successfully and
\* the index is back at 0.
C8_Witness ==
  /\ Len(active_sensors) = 2
  /\ lastRead.ret = "value"
  /\ lastRead.ch = active_sensors[2]
  /\ current_sensor_idx = 0
  /\ current_distances[lastRead.ch] = lastRead.val

\* The previous reading of the channel, in its present stay in the active
\* set, was below the threshold.
C9_PrevBelow(ch) ==
  /\ ch \in DOMAIN current_distances
  /\ 10 * current_distances[ch] < TRIGGER_DISTANCE

\* C9: a successful reading makes a Clear->Triggered edge exactly when it
\* is below the threshold and the channel's previous reading was not (or
\* it is the first since the channel was admitted): one crossing makes one
\* edge, and the below-threshold readings that follow make none.
C9_OneEdgePerCrossing ==
  [][(Poll /\ lastRead'.ret = "value")
       => ((lastRead'.edge = "rise")
             <=> (/\ 10 * lastRead'.val < TRIGGER_DISTANCE
                  /\ ~C9_PrevBelow(lastRead'.ch)))]_vars

\* C9 witness: a channel that is Triggered was read below the threshold
\* again, and no edge was made.
C9_Witness ==
  /\ lastRead.ret = "value"
  /\ lastRead.edge = "none"
  /\ 10 * lastRead.val < TRIGGER_DISTANCE
  /\ lastRead.ch \in DOMAIN sensor_states
  /\ sensor_states[lastRead.ch]

\* C10: the tracked state of a channel with a reading is Triggered iff
\* that reading is below the threshold; the threshold itself is Clear.
C10_TriggeredIffBelow ==
  /\ \A ch \in DOMAIN current_distances :
       sensor_states[ch] <=> (10 * current_distances[ch] < TRIGGER_DISTANCE)
  /\ ~BelowTrigger(TRIGGER_DISTANCE)

\* C10 witness: one channel read at 610 mm is Clear while another read at
\* 609 mm is Triggered.
C10_Witness ==
  \E a, b \in DOMAIN current_distances :
    /\ current_distances[a] = 610 /\ ~sensor_states[a]
    /\ current_distances[b] = 609 /\ sensor_states[b]

C15_Original ==
  (pc \in {"exited", "killed"} /\ strip)
    => \A st \in DOMAIN stairLevel : stairLevel[st] = 0

\* C15 amended: after an interrupt at any point of the control loop
\* (discovery, polling, a fade in progress, idle sleep), with the LED strip
\* initialized, every LED is off and shown off when the program has
\* terminated.
C15_CleanupInLoop ==
  (pc = "exited" /\ strip)
    => \A st \in DOMAIN stairLevel : stairLevel[st] = 0

\* C15 witness: the program has terminated after an interrupt that
\* arrived in the loop with an LED lit.
C15_Witness ==
  /\ pc = "exited"
  /\ strip
  /\ litAtInterrupt

\* C16 as stated: the program is aborted by a fault only when no
\* multiplexer answered its probe; a failing bus write during disable-all
\* does not abort it.
C16_Claim ==
  /\ pc = "fatal" => working_multiplexers = 0
  /\ pc # "crashed"

\* C21 as stated: a channel that a None reading evicted is no longer
\* marked initialized in the multiplexer object, and no last distance is
\* held for it.
C21_Claim ==
  \A c \in evicted :
    /\ ~initialized[c + 1]
    /\ c \notin DOMAIN current_distances

\* C22: no evicted channel has a trigger state (the entry is gone, not
\* Clear); a channel that a discovery pass admits gets the state Clear,
\* whatever state it was evicted in; and its first reading after that, if
\* below the threshold, is a Clear->Triggered edge.
C22_RediscoveryStartsClear ==
  /\ [](evicted \cap DOMAIN sensor_states = {})
  /\ [][(DiscoveryChannel /\ active_sensors' # active_sensors)
          => /\ channel \in DOMAIN sensor_states'
             /\ sensor_states'[channel] = FALSE]_vars
  /\ [][(Poll /\ lastRead'.ret = "value"
           /\ lastRead'.ch \notin DOMAIN current_distances
           /\ 10 * lastRead'.val < TRIGGER_DISTANCE)
          => (lastRead'.edge = "rise" /\ sensor_states'[lastRead'.ch])]_vars

\* C22 witness: after a second discovery pass a channel made a
\* Clear->Triggered edge while the LEDs of its stair were still at full
\* brightness: it was Triggered when it was evicted.
C22_Witness ==
  /\ pc = "loop"
  /\ passGap >= sensor_retry_interval
  /\ lastRead.edge = "rise"
  /\ lastRead.fade.from = 255
  /\ lastRead.ch \in DOMAIN sensor_states
  /\ sensor_states[lastRead.ch]

\* The brightness sequence of a fade goes from `from` towards `to` without
\* turning back.
C23_Ramp(from, to) ==
  \A step \in 0..(FADE_STEPS - 1) :
    LET b == FadeBrightness(from, to, FADE_STEPS, step)
        prev == IF step = 0 THEN from
                ELSE FadeBrightness(from, to, FADE_STEPS, step - 1)
    IN  IF from <= to THEN prev <= b /\ b <= to ELSE to <= b /\ b <= prev

\* C23: with a strip, a polling iteration that makes a Clear->Triggered
\* edge on a channel mapped to stair S runs one fade of FADE_STEPS steps,
\* one strip.show() per step, over the LEDs of S, and leaves them at 255;
\* one that makes a Triggered->Clear edge does the same and leaves them at
\* 0; one that makes no edge makes no fade and leaves every LED as it was.
C23_EdgeFades ==
  [][Poll
       => LET r == lastRead'
              S == STAIR_MAPPING[r.ch + 1]
              target == IF r.edge = "rise" THEN 255 ELSE 0
          IN  /\ (strip /\ r.edge # "none" /\ S # 0)
                   => /\ r.fade.stair = S
                      /\ r.fade.shows = FADE_STEPS
                      /\ r.fade.leds = <<StartLed(S), EndLed(S)>>
                      /\ r.fade.from = stairLevel[S]
                      /\ r.fade.to = target
                      /\ C23_Ramp(r.fade.from, target)
                      /\ stairLevel'[S] = target
              /\ r.edge = "none"
                   => (r.fade = NoFade /\ stairLevel' = stairLevel)]_vars

\* C23 witness: a Triggered->Clear edge has taken the lit LEDs of its
\* stair to zero in FADE_STEPS shown steps.
C23_Witness ==
  /\ strip
  /\ lastRead.edge = "fall"
  /\ lastRead.fade.shows = FADE_STEPS
  /\ lastRead.fade.from = 255
  /\ lastRead.fade.to = 0
  /\ stairLevel[lastRead.fade.stair] = 0

\* C24: the LED range of stair S begins where the range of stair S - 1
\* ends (at 0 for stair 1) and holds count(S) LEDs, the range of the last
\* stair ends at LED_COUNT - 1, so the ranges are pairwise disjoint and
\* cover 0..LED_COUNT-1, the 1590 LEDs of the strip; and a fade for stair S
\* sets the pixels of S's range and no other: the LEDs of every other
\* stair are as before.  (The table is a constant of the program: the
\* ranges are looked at in the states before the multiplexer is built.)
C24_RangesAndFrame ==
  /\ [](pc = "ctor_probe"
          => /\ StartLed(1) = 0
             /\ \A S \in DOMAIN STAIR_LED_COUNTS :
                  /\ EndLed(S) = StartLed(S) + STAIR_LED_COUNTS[S] - 1
                  /\ S > 1 => StartLed(S) = EndLed(S - 1) + 1
                  /\ \A T \in DOMAIN STAIR_LED_COUNTS :
                       T < S => EndLed(T) < StartLed(S)
             /\ EndLed(Len(STAIR_LED_COUNTS)) = LED_COUNT - 1
             /\ LED_COUNT = 11 * 114 + 3 * 112)
  /\ [][Poll
          => LET f == lastRead'.fade
             IN  IF f = NoFade THEN stairLevel' = stairLevel
                 ELSE /\ f.leds = <<StartLed(f.stair), EndLed(f.stair)>>
                      /\ f.stair = STAIR_MAPPING[lastRead'.ch + 1]
                      /\ \A st \in DOMAIN stairLevel :
                           st # f.stair => stairLevel'[st] = stairLevel[st]]_vars

\* C24 witness: the fade-out of stair 2 (channel 9) has set pixels
\* 114..227 while stair 9 (channel 0), pixels 908..1019, stays lit.
C24_Witness ==
  /\ lastRead.fade.stair = 2
  /\ lastRead.fade.leds = <<114, 227>>
  /\ stairLevel[2] = 0
  /\ stairLevel[9] = 255
  /\ <<StartLed(9), EndLed(9)>> = <<908, 1019>>

\* C25: in the loop with an empty active set, once sensor_retry_interval
\* has passed since the previous discovery pass began (or there was none)
\* the pass is due, and the iteration that finds it due is the pass; and
\* whenever the active set is empty in the loop a discovery pass follows,
\* unless the program is interrupted.
C25_DiscoveryResumes ==
  /\ []((/\ pc = "loop"
         /\ active_sensors = <<>>
         /\ (sincePass = -1 \/ sincePass >= sensor_retry_interval))
          => DiscoveryDue)
  /\ [][(pc = "loop" /\ DiscoveryDue) => pc' \in {"discover", "exited"}]_vars
  /\ (pc = "loop" /\ active_sensors = <<>>) ~> (pc \in {"discover", "exited"})

\* C25 witness: an eviction emptied the active set and a further discovery
\* pass is running, a full interval after the pass before it.
C25_Witness ==
  /\ pc = "discover"
  /\ evicted = {}
  /\ lastRead.ret = "None"
  /\ lastRead.ch >= 0
  /\ passGap >= sensor_retry_interval
  /\ current_distances = <<>>

\* C26: in every state of the control loop with a non-empty active set,
\* 0 <= current_sensor_idx < len(active_sensors): the read of line 441 is
\* never out of range.
C26_IndexInBounds ==
  (pc \in {"loop", "discover"} /\ active_sensors # <<>>)
    => (0 <= current_sensor_idx /\ current_sensor_idx < Len(active_sensors))

\* C26 witness: the set was evicted down to empty, a later pass found two
\* channels again, and the index stands on the second.
C26_Witness ==
  /\ pc = "loop"
  /\ passGap >= sensor_retry_interval
  /\ Len(active_sensors) = 2
  /\ current_sensor_idx = 1
  /\ lastRead.ret = "value"

\* C27: whenever a loop iteration begins, the active set is in ascending
\* channel order without a duplicate, the channels with a trigger state
\* are those of the active set, every channel with a stored distance is in
\* the active set, and every channel of the active set is marked
\* initialized in the multiplexer object and sits on a working
\* multiplexer.
C27_TrackingAgrees ==
  pc = "loop"
    => /\ \A i, j \in DOMAIN active_sensors :
            i < j => active_sensors[i] < active_sensors[j]
       /\ DOMAIN sensor_states = Range(active_sensors)
       /\ DOMAIN current_distances \subseteq Range(active_sensors)
       /\ \A ch \in Range(active_sensors) :
            /\ initialized[ch + 1]
            /\ TcaWorking(ch \div ChannelsPerMux)

\* C27 witness: one of two channels was evicted after both had been read;
\* the one that remains is tracked, the other is not.
C27_Witness ==
  /\ pc = "loop"
  /\ Len(active_sensors) = 1
  /\ Cardinality(evicted) = 1
  /\ DOMAIN current_distances = Range(active_sensors)
  /\ DOMAIN sensor_states = Range(active_sensors)
  /\ evicted \cap Range(active_sensors) = {}

\* The channel after ch in the cyclic order of the list l.
C29_Successor(l, ch) ==
  LET i == CHOOSE k \in DOMAIN l : l[k] = ch
  IN  l[(i % Len(l)) + 1]

\* C29: when the previous polling iteration read a channel successfully,
\* the next one reads the channel that follows it in the cyclic order of
\* the active set, and if that read succeeds too the active set is as it
\* was: as long as no read fails the channels are read in cyclic order,
\* each once in every len(active_sensors) iterations.
C29_RoundRobin ==
  [][(Poll /\ lastRead.ret = "value")
       => /\ lastRead.ch \in Range(active_sensors)
          /\ lastRead'.ch = C29_Successor(active_sensors, lastRead.ch)
          /\ lastRead'.ret = "value" => active_sensors' = active_sensors]_vars

\* C29 witness: with two active channels and no eviction, the first was
\* read, then the second, then the first again.
C29_Witness ==
  /\ pc = "loop"
  /\ evicted = {}
  /\ Len(active_sensors) = 2
  /\ DOMAIN current_distances = Range(active_sensors)
  /\ lastRead.ret = "value"
  /\ lastRead.ch = active_sensors[1]
  /\ current_sensor_idx = 1

\* C30 as stated: with a strip, whenever a loop iteration begins the LEDs
\* of a stair are lit only if the channel mapped to the stair is in the
\* active set with the state Triggered.
C30_Claim ==
  (pc = "loop" /\ strip)
    => \A S \in DOMAIN stairLevel :
         stairLevel[S] > 0
           => \E ch \in Range(active_sensors) :
                STAIR_MAPPING[ch + 1] = S /\ sensor_states[ch]

\* ---------------------------------------------------- claims: the audio

\* C11 as stated, for the first crossing: a reading that takes a channel
\* from Clear to Triggered has produced an audio play request.
C11_Claim == lastRead.edge = "rise" => plays >= 1

\* C12: a play_sound call issues at most two playback requests; when the
\* first one reports failure, connect_bluetooth is called exactly once and
\* the playback is retried at most once; and when the call returns without
\* a successful playback after that, it returns False with connected set
\* to False.
C12_PlayRetriesOnce ==
  /\ [](/\ play.playbacks <= 2
        /\ play.reconnects = (IF play.first = "fail" THEN 1 ELSE 0)
        /\ play.first # "fail" => play.playbacks <= 1
        /\ (play.pc = "returned" /\ play.first = "fail")
              => play.ret = (IF play.last = "ok" THEN "True" ELSE "False"))
  /\ [][(play.pc # "returned" /\ play'.pc = "returned"
          /\ play'.first = "fail" /\ play'.last # "ok")
           => (~connected' /\ play'.ret = "False")]_vars

\* C12 witness: the first playback failed, the reconnect succeeded, the
\* retry failed too, and the call returned with connected False.
C12_Witness ==
  /\ play.pc = "returned"
  /\ play.first = "fail"
  /\ play.last = "fail"
  /\ play.playbacks = 2
  /\ play.wasConnected
  /\ ~connected

\* C13: in a play_sound call that began with a sound file and not
\* connected, connect_bluetooth is called before any playback request;
\* when that connect fails the call returns False and has issued no
\* playback request.
C13_ConnectBeforePlay ==
  /\ (play.hadFile /\ ~play.wasConnected)
       => /\ play.pc = "connect" \/ play.preconnect # "none"
          /\ play.playbacks > 0 => play.preconnect = "True"
  /\ play.preconnect = "False"
       => (play.pc = "returned" /\ play.ret = "False" /\ play.playbacks = 0)

\* C13 witness: a call that began not connected has returned False after
\* three failed connect attempts, with no playback request.
C13_Witness ==
  /\ play.hadFile
  /\ ~play.wasConnected
  /\ play.preconnect = "False"
  /\ play.pc = "returned"
  /\ conn.attempts = 3
  /\ play.playbacks = 0

\* C14: a connect_bluetooth call whose status query answered "not
\* connected" issues the power-on and then at most 3 connect attempts, none
\* after a success; waits only between two attempts; returns True, with
\* connected set to True, iff an attempt succeeded, leaving connected as it
\* was otherwise; and every call returns.
C14_ConnectBounded ==
  /\ [](conn.status = "no"
          => /\ conn.attempts <= 3
             /\ (conn.pc = "attempt" \/ conn.attempts > 0 \/ conn.pc = "returned")
                  => conn.powered
             /\ conn.succeeded => (conn.pc = "returned" /\ conn.ret = "True")
             /\ conn.pc = "returned"
                  => /\ conn.ret = "True" <=> conn.succeeded
                     /\ conn.attempts > 0 => conn.backoffs = conn.attempts - 1
             /\ conn.pc # "returned" => conn.backoffs = conn.attempts)
  /\ [][(conn.pc # "returned" /\ conn'.pc = "returned" /\ conn'.status = "no")
           => connected' = (IF conn'.succeeded THEN TRUE ELSE connected)]_vars
  /\ (conn.pc # "returned") ~> (conn.pc = "returned")

\* C14 witness: the third attempt succeeded, after two waits.
C14_Witness ==
  /\ conn.pc = "returned"
  /\ conn.status = "no"
  /\ conn.attempts = 3
  /\ conn.backoffs = 2
  /\ conn.succeeded
  /\ connected

\* C28: when a play_sound call returns True, connected is True; when it
\* returns False and a sound file was configured, connected is False; and
\* a play_sound call without a sound file returns False at once, with no
\* connect_bluetooth call, no playback request and connected as it was.
C28_ConnectedTracksPlay ==
  [][/\ (play.pc # "returned" /\ play'.pc = "returned")
          => /\ play'.ret \in {"True", "False"}
             /\ play'.ret = "True" => connected'
             /\ (play'.ret = "False" /\ play'.hadFile) => ~connected'
     /\ (plays' # plays /\ ~sound_file)
          => /\ play'.pc = "returned"
             /\ play'.ret = "False"
             /\ play'.playbacks = 0
             /\ play'.preconnect = "none"
             /\ conn' = conn
             /\ connected' = connected]_vars

\* C28 witness: a call that began not connected has connected, played and
\* returned True, and connected is True.
C28_Witness ==
  /\ play.pc = "returned"
  /\ play.ret = "True"
  /\ play.hadFile
  /\ ~play.wasConnected
  /\ play.preconnect = "True"
  /\ connected

\* ------------------------------------------- claims: the colour mapping

\* C18: every distance up to MIN_DISTANCE maps to (255, 0, 0), every
\* distance from MAX_DISTANCE on to (0, 0, 255); from a distance to the
\* next one red does not grow and blue does not shrink (so for all
\* d1 <= d2 of the range), and green is 0.
C18_ClampedMonotonic ==
  color # NoColor
    => /\ distance_in <= 200 => color = <<255, 0, 0>>
       /\ distance_in >= 2000 => color = <<0, 0, 255>>
       /\ color[1] >= colorOfNext[1]
       /\ color[3] <= colorOfNext[3]
       /\ color[2] = 0 /\ colorOfNext[2] = 0
       /\ color[1] \in 0..255 /\ color[3] \in 0..255

\* C18 witness: between the two bounds, a distance whose successor has
\* less red and more blue.
C18_Witness ==
  /\ color # NoColor
  /\ distance_in > MIN_DISTANCE
  /\ distance_in < MAX_DISTANCE
  /\ color[1] > colorOfNext[1]
  /\ color[3] < colorOfNext[3]

\* round(255 * intensity) and round(255 * (1 - intensity)) for the exact
\* intensity 1 - (d' - min) / (max - min) = (max - d') / (max - min),
\* halves rounded up.
RoundedRed(d) ==
  (2 * 255 * (MAX_DISTANCE - Clamp(d)) + (MAX_DISTANCE - MIN_DISTANCE))
    \div (2 * (MAX_DISTANCE - MIN_DISTANCE))

RoundedBlue(d) ==
  (2 * 255 * (Clamp(d) - MIN_DISTANCE) + (MAX_DISTANCE - MIN_DISTANCE))
    \div (2 * (MAX_DISTANCE - MIN_DISTANCE))

\* C19 as stated: for every integer distance the colour is
\* (round(255 * intensity), 0, round(255 * (1 - intensity))).
C19_Claim ==
  color # NoColor
    => color = <<RoundedRed(distance_in), 0, RoundedBlue(distance_in)>>

=============================================================================
